---- MODULE Spec2Model ----
(***************************************************************************)
(* Model of github.com/iamjinlei/webdriver: the process-wide registry      *)
(* (inst, sessions, smu), the chromedriver supervisor (newChromeDriver,    *)
(* driver.Stop), the session lifecycle (New, Session.Close, Shutdown),     *)
(* the poll/retry primitive waitOn and the operations built on it          *)
(* (GetDOM, GetDOMs, Wait, ClickDOM with ScrollIntoView).                  *)
(***************************************************************************)
EXTENDS Integers, Sequences, FiniteSets, TLC

(* ---------------------------- bounds ----------------------------------- *)
NumCallers == 2        \* concurrent call sequences of the client program
MaxDrivers == 2        \* driver objects newChromeDriver may create in a run
MaxSessions == 2       \* sessions NewRemote may create in a run
MaxCalls == 4          \* calls of Init, New, Close and Shutdown in a run
MaxTimeout == 4        \* longest waitOn timeout, in ticker periods
MaxScript == 3         \* longest scripted prefix of fn's answers
MaxMatches == 3        \* most nodes one FindElements reply holds
NumPaths == 2          \* length of the xpaths argument of Wait

(* ------------------------ program constants ---------------------------- *)
MinPort == 1000        \* Init: port < 1000 is rejected
HealthBudget == 30     \* newChromeDriver: for i := 0; i < 30; i++
StatusOK == 200
StatusBadRequest == 400
StatusForbidden == 403
StatusNotFound == 404
StatusInternalServerError == 500

Callers == 1..NumCallers
Drivers == 1..MaxDrivers
SessionIds == 1..MaxSessions
\* the goroutine Init starts for driver d (go func() { <-sigCh; ... })
Handler(d) == NumCallers + d
Handlers == {Handler(d) : d \in Drivers}
Threads == Callers \cup Handlers

Ports == {999, 9090}
Paths == {"", "chromedriver"}      \* TrimSpace(os.Getenv("CHROME_DRIVER"))

\* var inst *server (nil when set = FALSE)
NoInst == [set |-> FALSE, d |-> 0, port |-> 0, ownDriver |-> FALSE]

\* the locals of a call: Init's port, newChromeDriver's d and i, the range
\* expression and index of Shutdown's loop and whether one of its Quit calls
\* returned an error, the receiver s of Close
NoLocals == [port |-> 0, d |-> 0, i |-> 0, s |-> 0, snap |-> <<>>,
             failed |-> FALSE]

\* a return: the returning thread, the function, the value, the source line
NoReturn == [t |-> 0, op |-> "none", v |-> "none", line |-> 0]

\* ScrollIntoView is not inside its waitOn call
NoInner == [active |-> FALSE, start |-> 0, tickerC |-> FALSE, toC |-> FALSE]

VARIABLES
    inst,        \* var inst *server
    sessions,    \* var sessions []*Session
    smu,         \* var smu sync.Mutex: 0 = unlocked, else the holding thread
    pc,          \* position of every thread
    loc,         \* locals of the call a thread is in
    ret,         \* the return the step just taken made, NoReturn if it made none
    nextD,       \* next driver object to allocate
    nextS,       \* next session to allocate
    calls,       \* calls made by the callers so far
    drv,         \* driver objects: port, shutdownURLPath
    child,       \* d.cmd: "none" | "running" | "exited"
    extUp,       \* an engine not spawned by this program listens on the port
    quits,       \* number of Quit calls issued per session
    stops,       \* number of driver.Stop invocations per driver
    prog,        \* "running" | "exited" (os.Exit) | "panicked"
    panicAt,     \* the call that panicked
    wpc,         \* waitOn: "idle" (not called) | "select" | "done"
    timeout,     \* waitOn's timeout argument, in ticker periods
    script,      \* what fn (or the remote end fn asks) answers on its first calls
    now,         \* ticker periods elapsed since waitOn was called
    tickerC,     \* ticker.C holds a tick (a channel of capacity 1)
    toC,         \* to.C holds the timer's value
    fnCalls,     \* invocations of fn so far
    werr,        \* the value waitOn returned
    wop,         \* the function that called waitOn (which closure fn is)
    wres,        \* what fn's closure stored for its caller (ret, selected)
    page,        \* what the browser would answer now (Wait, ClickDOM)
    findCalls,   \* FindElement/FindElements requests sent so far
    inner,       \* the waitOn call ScrollIntoView made from inside fn
    clicked      \* elem.Click() was sent

vars == <<inst, sessions, smu, pc, loc, ret, nextD, nextS, calls, drv,
          child, extUp, quits, stops, prog, panicAt, wpc, timeout, script,
          now, tickerC, toC, fnCalls, werr, wop, wres, page, findCalls,
          inner, clicked>>

registry == <<inst, sessions>>
alloc == <<nextD, nextS>>
engine == <<drv, child, extUp>>
fate == <<prog, panicAt>>
wait == <<wpc, timeout, script, now, tickerC, toC, fnCalls, werr, wop, wres,
          page, findCalls, inner, clicked>>
registryVars == <<inst, sessions, smu, pc, loc, ret, nextD, nextS, calls, drv,
                  child, extUp, quits, stops, prog, panicAt>>

Running == prog = "running"

\* a caller starts a call
Call(t) ==
    /\ t \in Callers /\ pc[t] = "idle"
    /\ calls < MaxCalls
    /\ calls' = calls + 1

\* no waitOn call is in progress
WaitIdle ==
    /\ wpc = "idle"
    /\ timeout = 0
    /\ script = <<>>
    /\ now = 0
    /\ tickerC = FALSE
    /\ toC = FALSE
    /\ fnCalls = 0
    /\ werr = "none"
    /\ wop = "none"
    /\ wres = "none"
    /\ page = "none"
    /\ findCalls = 0
    /\ inner = NoInner
    /\ clicked = FALSE

\* the registry before the first call
RegistryInit ==
    /\ inst = NoInst
    /\ sessions = <<>>
    /\ smu = 0
    /\ pc = [t \in Threads |-> IF t \in Callers THEN "idle" ELSE "unborn"]
    /\ loc = [t \in Threads |-> NoLocals]
    /\ ret = NoReturn
    /\ nextD = 1
    /\ nextS = 1
    /\ calls = 0
    /\ drv = [d \in Drivers |-> [port |-> 0, shutdownURLPath |-> ""]]
    /\ child = [d \in Drivers |-> "none"]
    /\ extUp \in BOOLEAN
    /\ quits = [s \in SessionIds |-> 0]
    /\ stops = [d \in Drivers |-> 0]
    /\ prog = "running"
    /\ panicAt = "none"

Init == RegistryInit /\ WaitIdle

\* a call returns: a caller goes back to idle, the signal goroutine goes on
\* to os.Exit(0); the locals of the call are gone
Leave(t) ==
    /\ pc' = [pc EXCEPT ![t] = IF t \in Callers THEN "idle" ELSE "h_exit"]
    /\ loc' = [loc EXCEPT ![t] = NoLocals]

Return(t, op, v, line) ==
    /\ Leave(t)
    /\ ret' = [t |-> t, op |-> op, v |-> v, line |-> line]

Goto(t, label) == pc' = [pc EXCEPT ![t] = label]

Panic(where) ==
    /\ prog' = "panicked"
    /\ panicAt' = where

(* ----------------------------- Init ------------------------------------ *)

\* Init, lines 79-93: argument validation, before the lock is taken
InitCall(t) ==
    /\ Running /\ Call(t)
    /\ \E path \in Paths, port \in Ports :
        IF path = ""
        THEN Return(t, "Init", "ErrEnvMissing", 81)
        ELSE IF port < MinPort
             THEN Return(t, "Init", "ErrPort", 85)
             ELSE /\ Goto(t, "init_lock")
                  /\ loc' = [loc EXCEPT ![t].port = port]
                  /\ ret' = NoReturn
    /\ UNCHANGED <<registry, smu, alloc, engine, quits, stops, fate>>
    /\ UNCHANGED wait

\* line 97: if inst != nil
AlreadyActive_Never(i) == FALSE
AlreadyActive(i) == i.set

\* line 98: return nil
ActiveResult_Error == "ErrActive"
ActiveResult == "nil"

\* lines 95-103: smu.Lock(), the already-active check (return nil, deferred
\* Unlock), and the driver object newChromeDriver builds first; SetDebug's
\* debugFlag only routes the child's output and is left out
InitEnter(t) ==
    /\ Running /\ pc[t] = "init_lock" /\ smu = 0
    /\ IF AlreadyActive(inst)
       THEN /\ Return(t, "Init", ActiveResult, 98)
            /\ UNCHANGED <<smu, nextD, drv>>
       ELSE /\ nextD <= MaxDrivers
            /\ smu' = t
            /\ drv' = [drv EXCEPT ![nextD] =
                          [port |-> loc[t].port, shutdownURLPath |-> "/shutdown"]]
            /\ loc' = [loc EXCEPT ![t].d = nextD]
            /\ nextD' = nextD + 1
            /\ Goto(t, "init_probe")
            /\ ret' = NoReturn
    /\ UNCHANGED <<registry, nextS, child, extUp, quits, stops, fate>>
    /\ UNCHANGED <<calls, wait>>

(* ------------------------- newChromeDriver ----------------------------- *)

\* what GET addr/status can answer (0: the request itself failed)
StatusReplies(d) ==
    (IF extUp THEN {StatusOK, StatusBadRequest, StatusForbidden} ELSE {0})
    \cup (IF \E c \in Drivers : child[c] = "running" /\ drv[c].port = drv[d].port
          THEN {0, StatusNotFound, StatusOK} ELSE {})

\* status := func(addr string) int, lines 142-157
status(reply) ==
    IF reply = 0 THEN StatusInternalServerError
    ELSE IF reply \in {StatusForbidden, StatusBadRequest, StatusOK} THEN StatusOK
    ELSE reply

\* Init lines 108-125 after newChromeDriver returned (d, isOwned, nil):
\* inst is set, the signal goroutine is started, the deferred Unlock runs
InitCommit(t, d, isOwned) ==
    /\ inst' = [set |-> TRUE, d |-> d, port |-> loc[t].port, ownDriver |-> isOwned]
    /\ pc' = [pc EXCEPT ![t] = "idle", ![Handler(d)] = "h_wait"]
    /\ loc' = [loc EXCEPT ![t] = NoLocals]
    /\ ret' = [t |-> t, op |-> "Init", v |-> "nil", line |-> 125]
    /\ smu' = 0

\* an Init that registers the driver before it is known to be healthy
InitFail_KeepsInst(t, err) ==
    /\ Return(t, "Init", err, 105)
    /\ smu' = 0
    /\ inst' = [set |-> TRUE, d |-> loc[t].d, port |-> loc[t].port,
                ownDriver |-> FALSE]

\* newChromeDriver returned an error: Init returns it, the deferred Unlock runs
InitFail(t, err) ==
    /\ Return(t, "Init", err, 105)
    /\ smu' = 0
    /\ UNCHANGED inst

\* lines 159-166: the first status probe, adoption when it answers OK,
\* d.cmd.Start() otherwise
InitProbe(t) ==
    /\ Running /\ pc[t] = "init_probe"
    /\ \E reply \in StatusReplies(loc[t].d), started \in BOOLEAN :
        IF status(reply) = StatusOK
        THEN /\ InitCommit(t, loc[t].d, FALSE)
             /\ UNCHANGED child
        ELSE IF started
             THEN /\ child' = [child EXCEPT ![loc[t].d] = "running"]
                  /\ Goto(t, "init_health")
                  /\ ret' = NoReturn
                  /\ UNCHANGED <<inst, loc, smu>>
             ELSE /\ InitFail(t, "ErrStart")
                  /\ UNCHANGED child
    /\ UNCHANGED <<sessions, alloc, drv, extUp, quits, stops, fate>>
    /\ UNCHANGED <<calls, wait>>

\* lines 168-175: one iteration of the health-check loop (sleep, probe), and
\* the error return once the budget is used up
InitHealth(t) ==
    /\ Running /\ pc[t] = "init_health" /\ loc[t].i < HealthBudget
    /\ \E reply \in StatusReplies(loc[t].d) :
        IF status(reply) = StatusOK
        THEN InitCommit(t, loc[t].d, TRUE)
        ELSE IF loc[t].i + 1 < HealthBudget
             THEN /\ loc' = [loc EXCEPT ![t].i = loc[t].i + 1]
                  /\ ret' = NoReturn
                  /\ UNCHANGED <<inst, pc, smu>>
             ELSE InitFail(t, "ErrHealth")
    /\ UNCHANGED <<sessions, alloc, engine, quits, stops, fate>>
    /\ UNCHANGED <<calls, wait>>

(* ---------------------------- Shutdown --------------------------------- *)

\* smu.Lock(); the range expression of line 181 is evaluated once
ShutdownLock(t) ==
    /\ Running /\ smu = 0
    /\ IF t \in Callers THEN Call(t) ELSE pc[t] = "sd_lock" /\ UNCHANGED calls
    /\ smu' = t
    /\ loc' = [loc EXCEPT ![t].snap = sessions, ![t].i = 1]
    /\ Goto(t, "sd_loop")
    /\ ret' = NoReturn
    /\ UNCHANGED <<registry, alloc, engine, quits, stops, fate>>
    /\ UNCHANGED wait

\* a loop that gives up at the first Quit that fails
ShutdownQuit_StopAtError(t) ==
    /\ Running /\ pc[t] = "sd_loop" /\ loc[t].i <= Len(loc[t].snap)
    /\ LET s == loc[t].snap[loc[t].i] IN
        /\ quits' = [quits EXCEPT ![s] = quits[s] + 1]
        /\ \E ok \in BOOLEAN :
             loc' = [loc EXCEPT ![t].i = IF ok THEN loc[t].i + 1
                                               ELSE Len(loc[t].snap) + 1,
                                ![t].failed = loc[t].failed \/ ~ok]
    /\ ret' = NoReturn
    /\ UNCHANGED <<registry, smu, pc, alloc, engine, stops, fate>>
    /\ UNCHANGED <<calls, wait>>

\* lines 181-184: one iteration, s.Quit() with its error dropped
ShutdownQuit(t) ==
    /\ Running /\ pc[t] = "sd_loop" /\ loc[t].i <= Len(loc[t].snap)
    /\ LET s == loc[t].snap[loc[t].i] IN
        /\ quits' = [quits EXCEPT ![s] = quits[s] + 1]
        /\ \E ok \in BOOLEAN :
             loc' = [loc EXCEPT ![t].i = loc[t].i + 1,
                                ![t].failed = loc[t].failed \/ ~ok]
    /\ ret' = NoReturn
    /\ UNCHANGED <<registry, smu, pc, alloc, engine, stops, fate>>
    /\ UNCHANGED <<calls, wait>>

\* if inst != nil && inst.ownDriver
ShouldStop_IgnoreOwned(i) == i.set
ShouldStop(i) == i.set /\ i.ownDriver

\* lines 185-195 up to the call of inst.d.Stop(): sessions = nil, and the
\* not-owned branch, which returns without touching inst
ShutdownClear(t) ==
    /\ Running /\ pc[t] = "sd_loop" /\ loc[t].i > Len(loc[t].snap)
    /\ sessions' = <<>>
    /\ IF ShouldStop(inst)
       THEN /\ loc' = [loc EXCEPT ![t].d = inst.d]
            /\ Goto(t, "sd_stop")
            /\ ret' = NoReturn
            /\ UNCHANGED smu
       ELSE /\ smu' = 0
            /\ Return(t, "Shutdown", "none", 195)
    /\ UNCHANGED <<inst, alloc, engine, quits, stops, fate>>
    /\ UNCHANGED <<calls, wait>>

\* driver.Stop, lines 46-66: what the call can do. The engine serving d.addr
\* exits when the shutdown request (or the kill) reached it.
StopOutcomes(d) ==
    IF drv[d].shutdownURLPath = ""
    THEN IF child[d] = "running" THEN {"killed"} ELSE {"ErrKill"}
    ELSE {"ErrGet"} \cup
         (IF child[d] = "running" THEN {"exited"}
          ELSE IF extUp THEN {"extdown"} ELSE {})

Stop(d, outcome) ==
    /\ child' = IF outcome \in {"killed", "exited"}
                THEN [child EXCEPT ![d] = "exited"] ELSE child
    /\ extUp' = IF outcome = "extdown" THEN FALSE ELSE extUp

\* inst = nil after inst.d.Stop()
AfterStop_KeepInst(i) == i
AfterStop(i) == NoInst

\* lines 189-190: inst.d.Stop(); inst = nil; then the deferred Unlock
ShutdownStop(t) ==
    /\ Running /\ pc[t] = "sd_stop"
    /\ stops' = [stops EXCEPT ![loc[t].d] = stops[loc[t].d] + 1]
    /\ \E outcome \in StopOutcomes(loc[t].d) : Stop(loc[t].d, outcome)
    /\ inst' = AfterStop(inst)
    /\ smu' = 0
    /\ Return(t, "Shutdown", "none", 195)
    /\ UNCHANGED <<sessions, alloc, drv, quits, fate>>
    /\ UNCHANGED <<calls, wait>>

(* ------------------------- signal goroutine ---------------------------- *)

\* SIGINT/SIGTERM: delivered to the sigCh of every goroutine waiting on one
Signal ==
    /\ Running /\ \E h \in Handlers : pc[h] = "h_wait"
    /\ pc' = [t \in Threads |-> IF pc[t] = "h_wait" THEN "sd_lock" ELSE pc[t]]
    /\ ret' = NoReturn
    /\ UNCHANGED <<registry, smu, loc, alloc, engine, quits,
                   stops, fate>>
    /\ UNCHANGED <<calls, wait>>

\* os.Exit(0) after Shutdown returned
Exit(t) ==
    /\ Running /\ pc[t] = "h_exit"
    /\ prog' = "exited"
    /\ ret' = NoReturn
    /\ UNCHANGED <<registry, smu, pc, loc, alloc, engine, quits,
                   stops, panicAt>>
    /\ UNCHANGED <<calls, wait>>

(* ------------------------------ New ------------------------------------ *)

EngineServing(port) ==
    extUp \/ \E c \in Drivers : child[c] = "running" /\ drv[c].port = port

\* lines 208-230: inst.port is read without the lock (a nil inst panics), then
\* NewRemote creates the remote session or fails
NewCall(t) ==
    /\ Running /\ Call(t)
    /\ IF ~inst.set
       THEN /\ Panic("New")
            /\ ret' = NoReturn
            /\ UNCHANGED <<pc, loc, nextS>>
       ELSE /\ \E created \in BOOLEAN :
                IF created /\ EngineServing(inst.port) /\ nextS <= MaxSessions
                THEN /\ loc' = [loc EXCEPT ![t].s = nextS]
                     /\ nextS' = nextS + 1
                     /\ Goto(t, "new_lock")
                     /\ ret' = NoReturn
                ELSE /\ Return(t, "New", "ErrRemote", 227)
                     /\ UNCHANGED nextS
            /\ UNCHANGED fate
    /\ UNCHANGED <<registry, smu, nextD, engine, quits, stops>>
    /\ UNCHANGED wait

\* lines 232-236: Lock, append, deferred Unlock
NewRegister(t) ==
    /\ Running /\ pc[t] = "new_lock" /\ smu = 0
    /\ sessions' = Append(sessions, loc[t].s)
    /\ Return(t, "New", "nil", 236)
    /\ UNCHANGED <<inst, smu, alloc, engine, quits, stops, fate>>
    /\ UNCHANGED <<calls, wait>>

(* -------------------------- Session.Close ------------------------------ *)

\* the sessions New has returned to a caller
Handed == {s \in SessionIds : s < nextS /\ \A t \in Callers :
                                  ~(pc[t] = "new_lock" /\ loc[t].s = s)}

\* lines 241-246: the index of s, Len + 1 when s is not in the slice
IndexOf(seq, s) ==
    IF \E i \in 1..Len(seq) : seq[i] = s
    THEN CHOOSE i \in 1..Len(seq) : seq[i] = s /\ \A j \in 1..(i - 1) : seq[j] # s
    ELSE Len(seq) + 1

\* lines 247-248: sessions[idx] = sessions[len-1]; sessions = sessions[:len-1]
RemoveAt(seq, idx) ==
    SubSeq([seq EXCEPT ![idx] = seq[Len(seq)]], 1, Len(seq) - 1)

\* line 249: smu.Unlock() before s.Quit()
AfterRemove_Deferred(t) == t
AfterRemove(t) == 0

\* lines 240-249: the critical section of Close; an idx past the end makes
\* line 247 panic with the lock held
CloseRemove(t) ==
    /\ Running /\ Call(t) /\ smu = 0
    /\ \E s \in Handed :
        LET idx == IndexOf(sessions, s) IN
        IF idx > Len(sessions)
        THEN /\ Panic("Close")
             /\ smu' = t
             /\ UNCHANGED <<sessions, pc, loc>>
        ELSE /\ sessions' = RemoveAt(sessions, idx)
             /\ loc' = [loc EXCEPT ![t].s = s]
             /\ Goto(t, "close_quit")
             /\ smu' = AfterRemove(t)
             /\ UNCHANGED fate
    /\ ret' = NoReturn
    /\ UNCHANGED <<inst, alloc, engine, quits, stops>>
    /\ UNCHANGED wait

\* line 251: return s.Quit()
CloseQuit(t) ==
    /\ Running /\ pc[t] = "close_quit"
    /\ quits' = [quits EXCEPT ![loc[t].s] = quits[loc[t].s] + 1]
    /\ \E ok \in BOOLEAN : Return(t, "Close", IF ok THEN "nil" ELSE "ErrQuit", 251)
    /\ UNCHANGED <<registry, smu, alloc, engine, stops, fate>>
    /\ UNCHANGED <<calls, wait>>

(* -------------------------- specification ------------------------------ *)

Next ==
    \/ \E t \in Threads : InitCall(t)
    \/ \E t \in Threads : InitEnter(t)
    \/ \E t \in Threads : InitProbe(t)
    \/ \E t \in Threads : InitHealth(t)
    \/ \E t \in Threads : ShutdownLock(t)
    \/ \E t \in Threads : ShutdownQuit(t)
    \/ \E t \in Threads : ShutdownClear(t)
    \/ \E t \in Threads : ShutdownStop(t)
    \/ Signal
    \/ \E t \in Threads : Exit(t)
    \/ \E t \in Threads : NewCall(t)
    \/ \E t \in Threads : NewRegister(t)
    \/ \E t \in Threads : CloseRemove(t)
    \/ \E t \in Threads : CloseQuit(t)

Spec == Init /\ [][Next]_vars

(* ------------------------------ waitOn --------------------------------- *)

\* what fn can answer: (false, nil), (true, nil), (true, err), (false, err)
Answers == {"more", "done", "fail", "softfail"}

RECURSIVE Scripts(_)
Scripts(n) ==
    IF n = 0 THEN {<<>>}
    ELSE LET shorter == Scripts(n - 1) IN
         shorter \cup {Append(sc, a) : sc \in {x \in shorter : Len(x) = n - 1},
                                       a \in Answers}

\* the clock runs this far past the longest timeout
MaxTime == MaxTimeout + 1

\* a reply of the remote end to FindElement or FindElements: the error (a
\* "no such element" error is what notFound recognises) and the nodes found
FindReply(err, nodes) == [err |-> err, nodes |-> nodes]
NoSuchElement == FindReply("no such element", <<>>)
RemoteError == FindReply("error", <<>>)
Nodes(k) == FindReply("nil", [i \in 1..k |-> i])

\* the replies FindElement can give: an error, (nil, nil), or one node
ElementReplies == {NoSuchElement, RemoteError, Nodes(0), Nodes(1)}
\* the replies FindElements can give: an error or a list of nodes
ElementsReplies == {NoSuchElement, RemoteError} \cup {Nodes(k) : k \in 0..MaxMatches}

RECURSIVE ScriptsOver(_, _)
ScriptsOver(A, n) ==
    IF n = 0 THEN {<<>>}
    ELSE LET shorter == ScriptsOver(A, n - 1) IN
         shorter \cup {Append(sc, a) : sc \in {x \in shorter : Len(x) = n - 1},
                                       a \in A}

\* what the n-th call of fn is answered: the scripted replies first, then
\* "nothing yet" for ever
Reply(n) ==
    IF n <= Len(script) THEN script[n]
    ELSE IF wop = "waitOn" THEN "more" ELSE NoSuchElement

\* fn's results (done, err), with what the closure stored for its caller
\* before it returned and the number of find requests the call sent
More(k) == [done |-> FALSE, err |-> "nil", res |-> wres, finds |-> k]
Done(res, k) == [done |-> TRUE, err |-> "nil", res |-> res, finds |-> k]
Fail(err, k) == [done |-> TRUE, err |-> err, res |-> wres, finds |-> k]

\* a probe handed to waitOn directly, answering as scripted
ScriptedProbe(a) ==
    IF a = "done" THEN Done(wres, 0)
    ELSE IF a = "fail" THEN Fail("err", 0)
    ELSE IF a = "softfail"
         THEN [done |-> FALSE, err |-> "err", res |-> wres, finds |-> 0]
         ELSE More(0)

\* lines 443-445: strings.Contains(err.Error(), "no such element")
notFound(err) == err = "no such element"

\* lines 254-265 (and 351-362): find, on the reply of FindElement
find(r) ==
    IF notFound(r.err) THEN [elem |-> <<>>, err |-> "ErrNotFound"]
    ELSE IF r.err # "nil" THEN [elem |-> <<>>, err |-> r.err]
    ELSE IF r.nodes = <<>> THEN [elem |-> <<>>, err |-> "ErrNotFound"]
    ELSE [elem |-> <<[s |-> "s", WebElement |-> r.nodes[1]]>>, err |-> "nil"]

\* lines 267-282 (and 364-379): findN, on the reply of FindElements
findN_FirstOnly(r) ==
    IF notFound(r.err) THEN [elems |-> <<>>, err |-> "ErrNotFound"]
    ELSE IF r.err # "nil" THEN [elems |-> <<>>, err |-> r.err]
    ELSE IF Len(r.nodes) = 0 THEN [elems |-> <<>>, err |-> "ErrNotFound"]
    ELSE [elems |-> <<[s |-> "s", WebElement |-> r.nodes[1]]>>, err |-> "nil"]
findN(r) ==
    IF notFound(r.err) THEN [elems |-> <<>>, err |-> "ErrNotFound"]
    ELSE IF r.err # "nil" THEN [elems |-> <<>>, err |-> r.err]
    ELSE IF Len(r.nodes) = 0 THEN [elems |-> <<>>, err |-> "ErrNotFound"]
    ELSE [elems |-> [i \in 1..Len(r.nodes) |->
                        [s |-> "s", WebElement |-> r.nodes[i]]],
          err |-> "nil"]

\* lines 292-304 (and 387-399): the closure of GetDOMTimeout; a not-found
\* probe asks for another tick
NotFoundResult_Surfaced(k) == Fail("ErrNotFound", k)
NotFoundResult(k) == More(k)

GetDOMProbe(r) ==
    LET f == find(r) IN
    IF f.err = "ErrNotFound" THEN NotFoundResult(1)
    ELSE IF f.err # "nil" THEN Fail(f.err, 1)
    ELSE IF f.elem = <<>> THEN More(1)
    ELSE Done(f.elem, 1)

\* lines 312-324 (and 403-415): the closure of GetDOMs
GetDOMsProbe(r) ==
    LET f == findN(r) IN
    IF f.err = "ErrNotFound" THEN NotFoundResult(1)
    ELSE IF f.err # "nil" THEN Fail(f.err, 1)
    ELSE IF Len(f.elems) = 0 THEN More(1)
    ELSE Done(f.elems, 1)

\* lines 462-471 (and 491-500): for idx, xpath := range xpaths
PickFirst_Last(idx) == NumPaths - 1 - idx
PickFirst(idx) == idx

RECURSIVE WaitLoop(_, _)
WaitLoop(p, n) ==
    IF n >= NumPaths THEN More(n)
    ELSE LET idx == PickFirst(n)
             f == find(p.finds[idx + 1]) IN
         IF f.err = "ErrNotFound" THEN WaitLoop(p, n + 1)
         ELSE IF f.err # "nil" THEN Fail(f.err, n + 1)
         ELSE IF f.elem # <<>> THEN Done(idx, n + 1)
         ELSE WaitLoop(p, n + 1)

\* lines 453-473 (and 482-503): the closure of Wait, on what the browser
\* answers now
WaitProbe(p) ==
    IF p.status = "error" THEN Fail("ErrStatus", 0)
    ELSE IF p.status = "notready" THEN More(0)
    ELSE WaitLoop(p, 0)

\* the n-th call of fn
fn(n) ==
    IF wop = "waitOn" THEN ScriptedProbe(Reply(n))
    ELSE IF wop = "GetDOM" THEN GetDOMProbe(Reply(n))
    ELSE IF wop = "GetDOMs" THEN GetDOMsProbe(Reply(n))
    ELSE WaitProbe(page)

\* lines 570-571: waitOn has just created the ticker and the timer
WaitStart ==
    /\ wpc = "select"
    /\ timeout \in 0..MaxTimeout
    /\ now = 0
    /\ tickerC = FALSE
    /\ toC = (timeout = 0)
    /\ fnCalls = 0
    /\ werr = "none"
    /\ findCalls = 0
    /\ inner = NoInner
    /\ clicked = FALSE

\* waitOn called with a scripted probe
WaitInit ==
    /\ WaitStart
    /\ wop = "waitOn"
    /\ wres = "none"
    /\ page = "none"
    /\ script \in Scripts(MaxScript)

\* lines 285-307, 310-328: GetDOM, GetDOMTimeout or GetDOMs has declared ret
\* and called waitOn
DOMInit ==
    /\ WaitStart
    /\ wop \in {"GetDOM", "GetDOMs"}
    /\ wres = <<>>
    /\ page = "none"
    /\ script \in ScriptsOver(IF wop = "GetDOM" THEN ElementReplies
                              ELSE ElementsReplies, MaxScript)

\* what the browser can answer a Wait probe: the engine status and, for every
\* path of xpaths, the reply to FindElement
WaitPages ==
    [status : {"error", "notready", "ready"},
     finds : [1..NumPaths -> {NoSuchElement, RemoteError, Nodes(1)}]]

\* lines 451-453: Wait has set selected := -1 and called waitOn
WaitAnyInit ==
    /\ WaitStart
    /\ wop = "Wait"
    /\ wres = -1
    /\ script = <<>>
    /\ page \in WaitPages

\* what the browser can answer ClickDOM: the reply to FindElement and, for the
\* element found, the result of IsDisplayed
ClickPages ==
    [find : {NoSuchElement, RemoteError, Nodes(1)},
     displayed : {"no", "yes", "error"}]

\* lines 330-331: ClickDOM has called waitOn
ClickInit ==
    /\ WaitStart
    /\ wop = "ClickDOM"
    /\ wres = "none"
    /\ script = <<>>
    /\ page \in ClickPages

\* the page loads and changes while the call waits
Render ==
    /\ wpc \in {"select", "scroll"} /\ wop \in {"Wait", "ClickDOM"}
    /\ page' \in (IF wop = "Wait" THEN WaitPages ELSE ClickPages) \ {page}
    /\ UNCHANGED <<wpc, timeout, script, now, tickerC, toC, fnCalls, werr,
                   wop, wres, findCalls, inner, clicked, registryVars>>

\* one ticker period passes while waitOn is blocked in select or inside fn:
\* the ticker sends (the tick is dropped when ticker.C is full), the timer
\* sends once its duration has elapsed
Tick ==
    /\ wpc \in {"select", "scroll"} /\ now < MaxTime
    /\ now' = now + 1
    /\ tickerC' = TRUE
    /\ toC' = (toC \/ now + 1 >= timeout)
    /\ inner' = IF inner.active
                THEN [inner EXCEPT !.tickerC = TRUE,
                                   !.toC = inner.toC
                                           \/ now + 1 - inner.start >= timeout]
                ELSE inner
    /\ UNCHANGED <<wpc, timeout, script, fnCalls, werr, wop, wres, page,
                   findCalls, clicked, registryVars>>

\* the select the goroutine is blocked in has no ready case
Blocked ==
    IF inner.active THEN ~inner.tickerC /\ ~inner.toC
    ELSE ~tickerC /\ ~toC

\* a ticker period passes only once everything that was ready has been
\* served: fn and the remote calls it makes return within one period
Elapse == Blocked /\ Tick

\* line 575: if done, err := fn(); err != nil ... else if done
Outcome_DoneFirst(r) ==
    IF r.done THEN "nil" ELSE IF r.err # "nil" THEN r.err ELSE "again"
Outcome(r) ==
    IF r.err # "nil" THEN r.err ELSE IF r.done THEN "nil" ELSE "again"

\* line 574: receiving from ticker.C empties the channel
AfterReceive_StillFull == TRUE
AfterReceive == FALSE

\* lines 574-579: case <-ticker.C, one call of fn
WaitTick ==
    /\ wpc = "select" /\ tickerC
    /\ wop \in {"waitOn", "GetDOM", "GetDOMs", "Wait"}
    /\ tickerC' = AfterReceive
    /\ fnCalls' = fnCalls + 1
    /\ LET r == fn(fnCalls + 1) IN
        /\ wres' = r.res
        /\ findCalls' = findCalls + r.finds
        /\ IF Outcome(r) = "again"
           THEN UNCHANGED <<wpc, werr>>
           ELSE wpc' = "done" /\ werr' = Outcome(r)
    /\ UNCHANGED <<timeout, script, now, toC, wop, page, inner, clicked,
                   registryVars>>

\* line 582: errors.Wrapf(ErrWaitTimeout, ...)
TimeoutError_Unknown == "ErrUnknown"
TimeoutError == "ErrWaitTimeout"

\* lines 581-582: case <-to.C
WaitTimeout ==
    /\ wpc = "select" /\ toC
    /\ wpc' = "done"
    /\ werr' = TimeoutError
    /\ toC' = FALSE
    /\ UNCHANGED <<timeout, script, now, tickerC, fnCalls, wop, wres, page,
                   findCalls, inner, clicked, registryVars>>

\* lines 331-337, 541-543: case <-ticker.C of ClickDOM's waitOn; fn finds the
\* element, has it scrolled into view and enters ScrollIntoView's own waitOn
ClickTick ==
    /\ wpc = "select" /\ tickerC /\ wop = "ClickDOM"
    /\ tickerC' = FALSE
    /\ fnCalls' = fnCalls + 1
    /\ findCalls' = findCalls + 1
    /\ LET f == find(page.find) IN
        IF f.err = "ErrNotFound"
        THEN UNCHANGED <<wpc, werr, inner>>
        ELSE IF f.err # "nil"
        THEN wpc' = "done" /\ werr' = f.err /\ UNCHANGED inner
        ELSE \E exec \in {"nil", "ErrScript"} :
                IF exec # "nil"
                THEN wpc' = "done" /\ werr' = exec /\ UNCHANGED inner
                ELSE /\ wpc' = "scroll"
                     /\ inner' = [active |-> TRUE, start |-> now,
                                  tickerC |-> FALSE, toC |-> (timeout = 0)]
                     /\ UNCHANGED werr
    /\ UNCHANGED <<timeout, script, now, toC, wop, wres, page, clicked,
                   registryVars>>

\* lines 545-551, 339-347: case <-ticker.C of ScrollIntoView's waitOn; once
\* IsDisplayed answers true ScrollIntoView returns nil and fn clicks
ScrollTick ==
    /\ wpc = "scroll" /\ inner.tickerC
    /\ IF page.displayed = "error"
       THEN /\ wpc' = "done" /\ werr' = "ErrDisplayed"
            /\ inner' = NoInner
            /\ UNCHANGED clicked
       ELSE IF page.displayed = "yes"
       THEN /\ wpc' = "done"
            /\ werr' \in {"nil", "ErrClick"}
            /\ inner' = NoInner
            /\ clicked' = TRUE
       ELSE /\ inner' = [inner EXCEPT !.tickerC = FALSE]
            /\ UNCHANGED <<wpc, werr, clicked>>
    /\ UNCHANGED <<timeout, script, now, tickerC, toC, fnCalls, wop, wres,
                   page, findCalls, registryVars>>

\* lines 552, 581-582, 339-341: case <-to.C of ScrollIntoView's waitOn; fn
\* returns (true, err) and ClickDOM's waitOn returns that error
ScrollTimeout ==
    /\ wpc = "scroll" /\ inner.toC
    /\ wpc' = "done"
    /\ werr' = TimeoutError
    /\ inner' = NoInner
    /\ UNCHANGED <<timeout, script, now, tickerC, toC, fnCalls, wop, wres,
                   page, findCalls, clicked, registryVars>>

InitW == RegistryInit /\ extUp = FALSE /\ WaitInit

NextW ==
    \/ Tick
    \/ WaitTick
    \/ WaitTimeout

\* one call of waitOn
SpecW == InitW /\ [][NextW]_vars

\* time passes, and a select whose timer case is ready takes it in the end
\* (Go's select picks among the ready cases at random)
FairSpecW == SpecW /\ WF_vars(Tick) /\ WF_vars(WaitTimeout)

\* one call of GetDOM, GetDOMTimeout or GetDOMs
InitDOM == RegistryInit /\ extUp = FALSE /\ DOMInit
SpecDOM == InitDOM /\ [][NextW]_vars

\* one call of Wait
InitWaitAny == RegistryInit /\ extUp = FALSE /\ WaitAnyInit

NextWaitAny ==
    \/ Tick
    \/ Render
    \/ WaitTick
    \/ WaitTimeout

SpecWaitAny == InitWaitAny /\ [][NextWaitAny]_vars

NextPrompt ==
    \/ Elapse
    \/ WaitTick
    \/ WaitTimeout

\* one call of waitOn whose probe returns within a ticker period
SpecPrompt == InitW /\ [][NextPrompt]_vars

\* time passes and a goroutine whose select has a ready case runs
FairSpecPrompt ==
    SpecPrompt /\ WF_vars(Elapse) /\ WF_vars(WaitTick) /\ WF_vars(WaitTimeout)

\* one call of ClickDOM whose remote calls return within a ticker period
InitClick == RegistryInit /\ extUp = FALSE /\ ClickInit

NextClick ==
    \/ Elapse
    \/ Render
    \/ ClickTick
    \/ ScrollTick
    \/ ScrollTimeout
    \/ WaitTimeout

SpecClick == InitClick /\ [][NextClick]_vars

(* ------------------------------ claims --------------------------------- *)

\* Init committed driver d as owned: its signal goroutine exists and d.cmd
\* was started
Owned(d) == pc[Handler(d)] # "unborn" /\ child[d] # "none"

\* C1: while a supervisor is active no step probes the engine status, no step
\* spawns a process, and no step replaces the active supervisor (inst only
\* changes from a set value by being cleared); this covers Init calls made
\* one after the other and Init calls running concurrently.
C1_InitOnce ==
    [][inst.set =>
        /\ ~(\E t \in Threads : InitProbe(t) \/ InitHealth(t))
        /\ \A d \in Drivers : child'[d] = "running" => child[d] = "running"
        /\ inst' \in {inst, NoInst}]_vars

\* two Init calls were made, the second returned at the already-active check,
\* and one driver object exists
C1_Witness ==
    /\ ret.op = "Init" /\ ret.line = 98
    /\ inst.set /\ calls = 2 /\ nextD = 2

\* C2: when Shutdown is about to invoke the process stop, every session that
\* was registered when it took the lock has been sent Quit, also when one of
\* these Quit calls failed.
C2_QuitAllBeforeStop ==
    \A t \in Threads :
        pc[t] = "sd_stop" =>
            \A k \in 1..Len(loc[t].snap) : quits[loc[t].snap[k]] >= 1

\* Shutdown with two registered sessions is about to stop the process, and a
\* Quit of its loop failed
C2_Witness ==
    \E t \in Threads :
        pc[t] = "sd_stop" /\ Len(loc[t].snap) = 2 /\ loc[t].failed

\* C3: Stop is never invoked on (and no Shutdown is about to invoke it on) a
\* driver whose process this program did not start, and an engine this
\* program adopted is never taken down.
C3_AdoptedNeverStopped ==
    /\ \A d \in Drivers :
        (stops[d] > 0 \/ \E t \in Threads : pc[t] = "sd_stop" /\ loc[t].d = d)
            => child[d] # "none"
    /\ (inst.set /\ ~inst.ownDriver /\ \A d \in Drivers : child[d] # "running")
            => extUp

\* a Shutdown has just returned with an adopted engine as the supervisor
C3_Witness ==
    /\ ret.op = "Shutdown"
    /\ inst.set /\ ~inst.ownDriver /\ extUp
    /\ stops[inst.d] = 0

\* C4: Stop is invoked at most once on every driver; not at all while the
\* driver is the active supervisor, and exactly once when an owned driver is
\* no longer the active supervisor, however many Shutdown calls (explicit or
\* from the signal goroutine) have run.
C4_StopExactlyOnce ==
    \A d \in Drivers :
        /\ stops[d] <= 1
        /\ (inst.set /\ inst.d = d) => stops[d] = 0
        /\ (Owned(d) /\ ~(inst.set /\ inst.d = d)) => stops[d] = 1

\* the signal goroutine of an owned driver ran its Shutdown to the end and an
\* explicit Shutdown of a caller has just returned as well
C4_Witness ==
    \E d \in Drivers :
        /\ Owned(d) /\ stops[d] = 1
        /\ pc[Handler(d)] = "h_exit"
        /\ ret.op = "Shutdown" /\ ret.t \in Callers
        /\ sessions = <<>>

\* C5: when Shutdown returns, the session collection is empty and the
\* active-supervisor marker is cleared.
C5_ShutdownClearsRegistry ==
    ret.op = "Shutdown" => (sessions = <<>> /\ ~inst.set)

NoDuplicates(seq) ==
    \A i, j \in 1..Len(seq) : seq[i] = seq[j] => i = j

\* C6: Session.Close never panics, every session is sent at most one Quit,
\* and the collection holds no session twice.
C6_CloseSafe ==
    /\ panicAt # "Close"
    /\ \A s \in SessionIds : quits[s] <= 1
    /\ NoDuplicates(sessions)

\* C7: when Init has returned the startup error after the health-check budget
\* was used up, no process this program spawned is left running.
C7_NoLeakAfterFailedStart ==
    (ret.op = "Init" /\ ret.v = "ErrHealth") =>
        \A d \in Drivers : child[d] # "running"

\* C8: a step in which Init returns an error leaves inst and sessions as they
\* were and starts no signal goroutine; when the error comes from
\* newChromeDriver, inst is unset.
C8_FailedInitLeavesRegistry ==
    [][(ret'.op = "Init" /\ ret'.v # "nil") =>
        /\ inst' = inst
        /\ sessions' = sessions
        /\ \A h \in Handlers : pc'[h] = pc[h]
        /\ ret'.v \in {"ErrEnvMissing", "ErrPort", "ErrStart", "ErrHealth"}
        /\ (ret'.v \in {"ErrStart", "ErrHealth"} => ~inst'.set)]_vars

\* Init has just returned the health-check error
C8_Witness ==
    /\ ret.op = "Init" /\ ret.v = "ErrHealth"
    /\ \E d \in Drivers : child[d] = "running" /\ pc[Handler(d)] = "unborn"

\* C9 as stated: every Init return made while a supervisor is active is nil.
C9_ActiveInitReturnsNil ==
    [][(ret'.op = "Init" /\ inst.set) => ret'.v = "nil"]_vars

\* C9 amended: an Init call whose arguments passed validation and that takes
\* the lock while a supervisor is active returns nil at the already-active
\* check; an Init return made while a supervisor is active is either nil or
\* one of the two validation errors, and leaves the supervisor as it is.
C9_ValidActiveInitReturnsNil ==
    [][/\ \A t \in Callers :
            (pc[t] = "init_lock" /\ pc'[t] # "init_lock" /\ inst.set)
                => (ret' = [t |-> t, op |-> "Init", v |-> "nil", line |-> 98])
       /\ (ret'.op = "Init" /\ inst.set) =>
            (ret'.v \in {"nil", "ErrEnvMissing", "ErrPort"} /\ inst' = inst)]_vars

\* an Init with valid arguments returned nil at the already-active check while
\* an owned supervisor was active
C9_Witness ==
    /\ ret.op = "Init" /\ ret.v = "nil" /\ ret.line = 98
    /\ inst.set /\ inst.ownDriver

\* fn answers (false, nil) on every call
NeverDone == \A n \in 1..Len(script) : script[n] = "more"

\* C10: a waitOn whose fn answers (false, nil) on every call returns in the
\* end, and what it returns is ErrWaitTimeout.
C10_NeverDoneTimesOut ==
    NeverDone => <>(wpc = "done" /\ werr = "ErrWaitTimeout")

\* a waitOn with a timeout of 3 ticker periods and such an fn has returned
\* ErrWaitTimeout after calling fn
C10_Witness ==
    /\ NeverDone /\ timeout = 3 /\ Len(script) = 3
    /\ wpc = "done" /\ werr = "ErrWaitTimeout"
    /\ fnCalls >= 2


\* C11: a probe call that returns (true, err) with err non-nil is the last
\* call of the probe: the wait has returned on that tick, what it returned is
\* that err, and the probe is not invoked after the return.
C11_ErrorAbortsWait ==
    wop = "waitOn" =>
        \A n \in 1..fnCalls :
            Reply(n) = "fail" =>
                /\ n = fnCalls
                /\ wpc = "done"
                /\ werr = ScriptedProbe("fail").err

\* the probe failed on the second tick, before the deadline
C11_Witness ==
    /\ wop = "waitOn" /\ wpc = "done"
    /\ fnCalls = 2 /\ Reply(2) = "fail"
    /\ werr = "err" /\ now < timeout

FalseFalseTrue == <<"more", "more", "done">>

NoMatch(r) == r \in {NoSuchElement, Nodes(0)}

\* the path of a GetDOM call matches no node on any tick
NeverMatches == wop = "GetDOM" /\ \A n \in 1..Len(script) : NoMatch(script[n])

C14_SmallestIndex ==
    /\ [](wop = "Wait" =>
            /\ (wpc = "done" /\ werr = "nil") =>
                  /\ page.status = "ready"
                  /\ wres \in 0..(NumPaths - 1)
                  /\ page.finds[wres + 1] = Nodes(1)
                  /\ \A j \in 1..wres : page.finds[j] # Nodes(1)
            /\ (wpc = "done" /\ werr # "nil") => wres = -1
            /\ wpc = "select" => wres = -1)
    /\ [][(wop = "Wait" /\ page.status = "notready" /\ fnCalls' # fnCalls) =>
            (findCalls' = findCalls /\ wpc' = "select")]_vars

\* both paths match on the second tick served: index 0 is returned
C14_Witness ==
    /\ wop = "Wait" /\ wpc = "done" /\ werr = "nil"
    /\ page.finds[1] = Nodes(1) /\ page.finds[2] = Nodes(1)
    /\ wres = 0 /\ fnCalls >= 2

\* C15: a GetDOMs call that returns nil returns a non-empty collection with
\* one handle per node FindElements matched on the tick that ended the wait,
\* in order; a tick on which FindElements matched nothing does not end the
\* wait (only the timer can end it then).
C15_NeverEmpty ==
    wop = "GetDOMs" =>
        /\ (wpc = "done" /\ werr = "nil") =>
              /\ Len(wres) >= 1
              /\ Len(wres) = Len(Reply(fnCalls).nodes)
              /\ \A i \in 1..Len(wres) :
                    wres[i].WebElement = Reply(fnCalls).nodes[i]
        /\ (wpc = "done" /\ fnCalls >= 1 /\ NoMatch(Reply(fnCalls))) =>
              werr = "ErrWaitTimeout"

\* the first tick matched nothing, a later tick matched three nodes
C15_Witness ==
    /\ wop = "GetDOMs" /\ wpc = "done" /\ werr = "nil"
    /\ fnCalls >= 2 /\ Reply(1) = Nodes(0)
    /\ Len(wres) = 3

\* thread t is about to make, or is inside, a call that blocks on the
\* network or on a process: the status probes and the spawn of
\* newChromeDriver, a session's Quit, driver.Stop
AtBlockingCall(t) ==
    \/ pc[t] \in {"init_probe", "init_health", "sd_stop", "close_quit"}
    \/ pc[t] = "sd_loop" /\ loc[t].i <= Len(loc[t].snap)

\* C16 as stated: no thread holds the lock across a blocking network or
\* process call.
C16_NoLockAcrossBlockingCall ==
    \A t \in Threads : AtBlockingCall(t) => smu # t

\* C16: Close makes its remote close call without the lock; Init holds the
\* lock across engine acquisition (probe, spawn, health-check loop) and
\* Shutdown holds it across every Quit and across driver.Stop.
C16_OnlyCloseUnlocks ==
    \A t \in Threads :
        AtBlockingCall(t) => (smu = t <=> pc[t] # "close_quit")

\* a Close is inside Quit without the lock while a Shutdown holds the lock
\* at driver.Stop
C16_Witness ==
    \E t, u \in Threads :
        /\ pc[t] = "close_quit" /\ smu # t
        /\ pc[u] = "sd_stop" /\ smu = u

\* C17: every step of Init, New, Close and Shutdown that reads or changes
\* inst or sessions is taken by the thread holding smu (the steps that model
\* Lock, access and Unlock at once take the free lock themselves); in
\* particular the step in which New reads inst.port.
C17_AccessUnderLock ==
    [][\A t \in Threads :
        /\ (InitEnter(t) \/ ShutdownLock(t) \/ NewRegister(t) \/ CloseRemove(t))
              => smu = 0
        /\ (InitProbe(t) \/ InitHealth(t) \/ ShutdownClear(t) \/ ShutdownStop(t))
              => smu = t
        /\ NewCall(t) => smu = t]_vars

\* NewRemote created session s and no Quit was sent for it
Open(s) == s < nextS /\ quits[s] = 0

\* C18: a session that is open or in the registry has its supervisor: inst
\* is set and an owned engine process is running.
C18_SessionWithinProcess ==
    \A s \in SessionIds :
        (Open(s) \/ \E i \in 1..Len(sessions) : sessions[i] = s) =>
            /\ inst.set
            /\ inst.ownDriver => child[inst.d] = "running"

\* C19: once driver.Stop has been called on a driver whose process was
\* started and the call has returned, the process has exited.
C19_StopWaitsForExit ==
    \A d \in Drivers :
        (stops[d] >= 1 /\ child[d] # "none") => child[d] = "exited"

\* C20: a ClickDOM call has returned by the time the session timeout has
\* elapsed since it was called (counted in ticker periods, with every remote
\* call returning within a period), and it sends the click only for an
\* element it located and that IsDisplayed reported displayed.
C20_ClickWithinTimeout ==
    wop = "ClickDOM" =>
        /\ wpc = "done" => now <= timeout
        /\ clicked => (findCalls >= 1 /\ page.displayed = "yes")
====
